---- MODULE Spec2Model ----
(***************************************************************************)
(* Model of key2p/servicer: the unit-name normaliser, the D-Bus object     *)
(* path escaper, the unit state queries, the Start command of main.rs,     *)
(* the create handler, the unit actions of utils/service_actions.rs and    *)
(* get_memory_usage of utils/process_status.rs.                            *)
(*                                                                         *)
(* Strings are sequences of Unicode code points (Rust `char as u32`), so   *)
(* that escaping, suffix tests and path splitting are computed, character  *)
(* by character, the way the code computes them.                           *)
(***************************************************************************)
EXTENDS Integers, Sequences, FiniteSets, TLC

VARIABLES
    pc,             \* position of the modelled invocation
    input_string,   \* escaper: the string handed to encode_as_dbus_object_path
    object_path,    \* escaper: its result
    reencoded,      \* escaper: the result of encoding object_path again
    other_string,   \* escaper: a second unit name
    other_path,     \* escaper: the second name's encoding
    path_or_service,    \* Start: the positional argument
    full_service_name,  \* Start: the unit name derived from it (main.rs:59)
    renormalized,       \* the unit name derived from full_service_name in turn
    queried_unit,   \* query: the unit name handed to a state query
    query,          \* query: which state query ran
    unit_path,      \* query: the object path it computed
    reply,          \* query: what the bus answered to the property read
    result,         \* query: what the query returned to its caller
    custom_name,        \* Start: --name
    custom_interpreter, \* Start: --interpreter
    force,              \* Start: --force
    load_state,         \* Start: the load state queried for full_service_name
    file_name,          \* Start: the final segment of the path
    service_name,       \* Start: the custom name, or else the file name
    created_name,       \* Start: the full_service_name of main.rs:92
    active_state,       \* Start: the active state queried for created_name
    files,              \* the descriptor files on disk: path -> content
    files_before,       \* the descriptor files when the invocation began
    bus_log,            \* the requests sent to the manager object, in order
    outcome,            \* how the invocation ended
    start,              \* create: --start
    enable,             \* create: --enable
    auto_restart,       \* create: --auto-restart
    env_vars,           \* create: --env-vars
    internal_args,      \* create: the arguments handed on to the file
    interpreter,        \* create: the interpreter resolved for the file
    command,            \* unit action: which of start, stop, reload, enable, disable
    contents,           \* memory usage: the text of /proc/<pid>/statm
    page_size_kb,       \* memory usage: the page size handed to get_memory_usage
    memory              \* memory usage: how get_memory_usage ended

escVars == <<input_string, object_path, reencoded, other_string, other_path>>
normVars == <<path_or_service, full_service_name, renormalized>>
queryVars == <<queried_unit, query, unit_path, reply, result>>
startVars ==
    <<custom_name, custom_interpreter, force, load_state, file_name, service_name,
      created_name, active_state, files, files_before, bus_log, outcome>>
createVars == <<start, enable, auto_restart, env_vars, internal_args, interpreter>>
actionVars == <<command>>
statmVars == <<contents, page_size_kb, memory>>
vars == <<pc, escVars, normVars, queryVars, startVars, createVars, actionVars, statmVars>>

\* what the runs of each part leave alone
escOthers == <<normVars, queryVars, startVars, createVars, actionVars, statmVars>>
normOthers == <<escVars, queryVars, startVars, createVars, actionVars, statmVars>>
queryOthers == <<escVars, normVars, startVars, createVars, actionVars, statmVars>>
startOthers == <<escVars, queryVars, renormalized, createVars, actionVars, statmVars>>
createOthers ==
    <<escVars, queryVars, renormalized, full_service_name, force, load_state, active_state,
      actionVars, statmVars>>
actionOthers ==
    <<escVars, queried_unit, query, unit_path, result, path_or_service, renormalized,
      custom_name, custom_interpreter,
      force, load_state, file_name, service_name, created_name, active_state, files,
      files_before, createVars, statmVars>>
statmOthers == <<escVars, normVars, queryVars, startVars, createVars, actionVars>>

(***************************************************************************)
(* Bounds of the model.                                                    *)
(***************************************************************************)
MaxLen == 3         \* longest enumerated input of the escaper
MaxPairLen == 3     \* longest enumerated name in the two-name escaper runs
MaxStemLen == 1     \* longest enumerated stem of a path or of a custom name
MaxArgs == 2        \* most arguments handed on to the file
MaxNameLen == 3     \* longest enumerated service name of a unit action
MaxStatmLen == 5    \* longest enumerated text of a statm file

RECURSIVE BoundedSeq(_, _)
BoundedSeq(S, n) ==
    IF n = 0 THEN {<<>>}
    ELSE LET shorter == BoundedSeq(S, n - 1)
         IN  shorter \cup {Append(s, c) : s \in {t \in shorter : Len(t) = n - 1}, c \in S}

(***************************************************************************)
(* Characters and literals of the source.                                  *)
(***************************************************************************)
Slash == 47         \* '/'
Underscore == 95    \* '_'

\* a 7 Z / _ . - space TAB e-acute EURO : every class the escaper distinguishes,
\* a one-digit code point (9), a two-digit non-ASCII one (e9) and a wide one (20ac)
EscAlphabet == {97, 55, 90, Slash, Underscore, 46, 45, 32, 9, 233, 8364}
\* . _ 2 e a : the characters of an escape sequence and of what it stands for
PairAlphabet == {46, Underscore, 50, 101, 97}

\* "hello world.txt"
HelloWorldTxt == <<104, 101, 108, 108, 111, 32, 119, 111, 114, 108, 100, 46, 116, 120, 116>>
\* "hello_20world_2etxt"
HelloWorldEscaped ==
    <<104, 101, 108, 108, 111, 95, 50, 48, 119, 111, 114, 108, 100, 95, 50, 101, 116, 120, 116>>

\* a s
StemAlphabet == {97, 115}
Stems == BoundedSeq(StemAlphabet, MaxStemLen)
\* "", "d/" and "/"
Dirs == {<<>>, <<100, Slash>>, <<Slash>>}
\* "", ".js", ".py", ".rb", ".stabled.service", "stabled.service"
Endings ==
    {<<>>, <<46, 106, 115>>, <<46, 112, 121>>, <<46, 114, 98>>,
     <<46, 115, 116, 97, 98, 108, 101, 100, 46, 115, 101, 114, 118, 105, 99, 101>>,
     <<115, 116, 97, 98, 108, 101, 100, 46, 115, 101, 114, 118, 105, 99, 101>>}
\* what a user may type as <path_or_service>
Paths == {d \o s \o e : d \in Dirs, s \in Stems, e \in Endings}

(***************************************************************************)
(* utils/systemd.rs: the object-path escaper.                              *)
(***************************************************************************)
\* char::is_ascii_alphanumeric
is_ascii_alphanumeric(c) ==
    \/ 48 <= c /\ c <= 57
    \/ 65 <= c /\ c <= 90
    \/ 97 <= c /\ c <= 122

\* one digit of format!("{:x}")
HexDigit(d) == IF d < 10 THEN 48 + d ELSE 87 + d

\* format!("{:x}", n): lowercase, natural width
RECURSIVE LowerHex(_)
LowerHex(n) ==
    IF n < 16 THEN <<HexDigit(n)>>
    ELSE LowerHex(n \div 16) \o <<HexDigit(n % 16)>>

\* format!("{:02x}", n): a formatter that pads to two digits
PaddedHex(n) == IF n < 16 THEN <<48, HexDigit(n)>> ELSE LowerHex(n)

\* the closure with a zero-padded escape
encode_char_padded(c) ==
    IF is_ascii_alphanumeric(c) \/ c = Slash \/ c = Underscore
    THEN <<c>>
    ELSE <<Underscore>> \o PaddedHex(c)

\* the closure mapped over the characters
encode_char(c) ==
    IF is_ascii_alphanumeric(c) \/ c = Slash \/ c = Underscore
    THEN <<c>>
    ELSE <<Underscore>> \o LowerHex(c)

\* .chars().map(..).collect()
RECURSIVE encode_as_dbus_object_path(_)
encode_as_dbus_object_path(s) ==
    IF s = <<>> THEN <<>>
    ELSE encode_char(Head(s)) \o encode_as_dbus_object_path(Tail(s))

\* "/org/freedesktop/systemd1/unit/"
UnitPathPrefix ==
    <<47, 111, 114, 103, 47, 102, 114, 101, 101, 100, 101, 115, 107, 116, 111, 112, 47,
      115, 121, 115, 116, 101, 109, 100, 49, 47, 117, 110, 105, 116, 47>>

get_unit_path(unit_name) ==
    UnitPathPrefix \o encode_as_dbus_object_path(unit_name)

(***************************************************************************)
(* utils/systemd.rs and main.rs: the state queries.                        *)
(***************************************************************************)
\* zvariant::ObjectPath::try_from: "/" or '/'-separated non-empty elements of
\* [A-Za-z0-9_], starting with '/' and not ending with one
ObjectPathValid(path) ==
    \A p \in {path} :
        /\ Len(p) >= 1
        /\ p[1] = Slash
        /\ \A i \in 1 .. Len(p) :
              is_ascii_alphanumeric(p[i]) \/ p[i] = Slash \/ p[i] = Underscore
        /\ Len(p) > 1 => p[Len(p)] # Slash
        /\ \A i \in 1 .. Len(p) - 1 : ~(p[i] = Slash /\ p[i + 1] = Slash)

\* zbus::Result of a property read, as the bus answers it
OkReply(v) == [ok |-> TRUE, value |-> v]
ErrReply(e) == [ok |-> FALSE, value |-> e]
NotAsked == [ok |-> TRUE, value |-> "not-asked"]

\* the errors a read can end with: the object is unknown to the daemon, the
\* caller may not read it, the connection broke
AddressErrors == {"UnknownObject"}
TransportErrors == {"AccessDenied", "InputOutput"}
BusErrors == AddressErrors \cup TransportErrors

LoadStates == {"loaded", "not-found", "masked"}
ActiveStates == {"active", "reloading", "inactive", "failed"}
UnitFileStates == {"enabled", "disabled"}
\* MainPID: 0 when the service has no main process
MainPids == {"0", "4242"}

Replies(values) == {OkReply(v) : v \in values} \cup {ErrReply(e) : e \in BusErrors}

\* what a query hands to its caller
StringResult(v) == [kind |-> "string", value |-> v]
PidResult(v) == [kind |-> "pid", value |-> v]
ErrResult(e) == [kind |-> "err", value |-> e]
NoResult == [kind |-> "none", value |-> ""]

\* Result::unwrap_or
unwrap_or(r, default) == IF r.ok THEN r.value ELSE default

\* main.rs: fn encode_as_dbus_object_path, the copy the Start command uses
RECURSIVE main_encode_as_dbus_object_path(_)
main_encode_as_dbus_object_path(s) ==
    IF s = <<>> THEN <<>>
    ELSE (IF is_ascii_alphanumeric(Head(s)) \/ Head(s) = Slash \/ Head(s) = Underscore
          THEN <<Head(s)>>
          ELSE <<Underscore>> \o LowerHex(Head(s)))
         \o main_encode_as_dbus_object_path(Tail(s))

\* main.rs: format!("/org/freedesktop/systemd1/unit/{}", encode_as_dbus_object_path(..))
main_object_path(unit_name) == UnitPathPrefix \o main_encode_as_dbus_object_path(unit_name)

\* main.rs: fn get_load_state; r is the answer to the LoadState read
get_load_state(unit_name, r) ==
    IF ObjectPathValid(main_object_path(unit_name))
    THEN StringResult(unwrap_or(r, "invalid-unit-path"))
    ELSE StringResult("invalid-unit-path")

\* main.rs: fn get_active_state
main_get_active_state(unit_name, r) ==
    IF ObjectPathValid(main_object_path(unit_name))
    THEN StringResult(unwrap_or(r, "invalid-unit-path"))
    ELSE StringResult("invalid-unit-path")

\* utils/systemd.rs: fn get_active_state
get_active_state(unit_name, r) ==
    IF ObjectPathValid(get_unit_path(unit_name))
    THEN StringResult(unwrap_or(r, "invalid-unit-path"))
    ELSE StringResult("invalid-unit-path")

\* a unit-file-state query that hands the read's error on to its caller
get_unit_file_state_propagating(unit_name, r) ==
    IF ObjectPathValid(get_unit_path(unit_name))
    THEN IF r.ok THEN StringResult(r.value) ELSE ErrResult(r.value)
    ELSE StringResult("invalid-unit-path")

\* utils/systemd.rs: fn get_unit_file_state
get_unit_file_state(unit_name, r) ==
    IF ObjectPathValid(get_unit_path(unit_name))
    THEN StringResult(unwrap_or(r, "invalid-unit-path"))
    ELSE StringResult("invalid-unit-path")

\* utils/systemd.rs: fn get_main_pid: both `?` and the final read hand the
\* error to the caller
get_main_pid(unit_name, r) ==
    IF ~ObjectPathValid(get_unit_path(unit_name))
    THEN ErrResult("InvalidObjectPath")
    ELSE IF r.ok THEN PidResult(r.value) ELSE ErrResult(r.value)

(***************************************************************************)
(* main.rs: paths, interpreters and the descriptor file.                   *)
(***************************************************************************)
\* Option<String>
None == [some |-> FALSE, v |-> <<>>]
Some(x) == [some |-> TRUE, v |-> x]

\* the position of the last c in s, 0 when there is none
RECURSIVE LastIndexOf(_, _)
LastIndexOf(s, c) ==
    IF s = <<>> THEN 0
    ELSE IF s[Len(s)] = c THEN Len(s)
    ELSE LastIndexOf(SubSeq(s, 1, Len(s) - 1), c)

\* Path::file_name of a path that names a file: its final segment
path_file_name(path) == SubSeq(path, LastIndexOf(path, Slash) + 1, Len(path))

\* Path::parent: what precedes the final segment, "" for a bare file name and
\* "/" for a file in the root
path_parent(path) ==
    LET k == LastIndexOf(path, Slash)
    IN  IF k = 1 THEN <<Slash>> ELSE SubSeq(path, 1, k - 1)

\* Path::extension: what follows the last '.' of the file name; none without
\* a '.', and none when the only '.' starts the name
path_extension(path) ==
    LET name == path_file_name(path)
        k == LastIndexOf(name, 46)
    IN  IF k <= 1 THEN None ELSE Some(SubSeq(name, k + 1, Len(name)))

\* "node", "python3", and "ruby" for a custom interpreter
Node == <<110, 111, 100, 101>>
Python3 == <<112, 121, 116, 104, 111, 110, 51>>
Ruby == <<114, 117, 98, 121>>
Panic == [some |-> FALSE, v |-> <<112, 97, 110, 105, 99>>]

\* main.rs: fn get_interpreter; Panic stands for the panic!() of the last arm
main_get_interpreter(extension) ==
    IF ~extension.some THEN None
    ELSE IF extension.v = <<106, 115>> THEN Some(Node)
    ELSE IF extension.v = <<112, 121>> THEN Some(Python3)
    ELSE Panic

\* which::which when the executable is found: "/usr/bin/<name>"
which(executable) == <<47, 117, 115, 114, 47, 98, 105, 110, 47>> \o executable

\* fs::canonicalize of an existing directory: absolute paths as they are,
\* relative ones under the current directory "/w"
canonicalize(dir) ==
    IF dir # <<>> /\ dir[1] = Slash THEN dir ELSE <<Slash, 119, Slash>> \o dir

\* format!("/etc/systemd/system/{}", full_service_name)
main_service_file_path(unit_name) ==
    <<47, 101, 116, 99, 47, 115, 121, 115, 116, 101, 109, 100, 47,
      115, 121, 115, 116, 101, 109, 47>> \o unit_name

\* main.rs: the exec_start of create_service_file
main_exec_start(interp, name) ==
    IF interp.some THEN which(interp.v) \o <<32>> \o name ELSE name

\* main.rs: the service_body of create_service_file, by its parameters
main_service_body(name, user, working_directory, exec_start) ==
    [generator |-> "stabled", description |-> name, user |-> user,
     working_directory |-> working_directory, exec_start |-> exec_start]

\* a descriptor that something else installed earlier
OldDescriptor ==
    [generator |-> "other", description |-> <<>>, user |-> "root",
     working_directory |-> <<Slash>>, exec_start |-> <<>>]

\* Manager.StartUnit(name, mode)
StartUnit(unit_name, mode) == [method |-> "StartUnit", unit |-> unit_name, mode |-> mode]

(***************************************************************************)
(* handlers/handle_create_service.rs.                                      *)
(***************************************************************************)
\* utils::service_names::get_full_service_name: "<name>.ser.service"
get_full_service_name(base) ==
    base \o <<46, 115, 101, 114>> \o <<46, 115, 101, 114, 118, 105, 99, 101>>

\* utils::service_names::get_service_file_path
get_service_file_path(unit_name) ==
    <<47, 101, 116, 99, 47, 115, 121, 115, 116, 101, 109, 100, 47,
      115, 121, 115, 116, 101, 109, 47>> \o unit_name

\* a lookup that runs a file of unknown extension without an interpreter
get_interpreter_fallback(extension) ==
    IF ~extension.some THEN None
    ELSE IF extension.v = <<106, 115>> THEN Some(Node)
    ELSE IF extension.v = <<112, 121>> THEN Some(Python3)
    ELSE None

\* fn get_interpreter; Panic stands for the panic!() of the last arm
get_interpreter(extension) ==
    IF ~extension.some THEN None
    ELSE IF extension.v = <<106, 115>> THEN Some(Node)
    ELSE IF extension.v = <<112, 121>> THEN Some(Python3)
    ELSE Panic

\* lines 61-64: the custom interpreter, or else the one of the extension
resolve_interpreter(custom, path) ==
    IF custom.some THEN custom ELSE get_interpreter(path_extension(path))

\* a loop that puts each argument after the ones that follow it
RECURSIVE append_args_reversed(_, _)
append_args_reversed(exec_start, args) ==
    IF args = <<>> THEN exec_start
    ELSE append_args_reversed(exec_start, Tail(args)) \o <<32>> \o Head(args)

\* lines 182-184: for arg in internal_args { exec_start = "{exec_start} {arg}" }
RECURSIVE append_args(_, _)
append_args(exec_start, args) ==
    IF args = <<>> THEN exec_start
    ELSE append_args(exec_start \o <<32>> \o Head(args), Tail(args))

\* lines 163-184: the exec line of create_service_file
create_exec_start(interp, name, args) ==
    append_args(IF interp.some THEN which(interp.v) \o <<32>> \o name ELSE name, args)

\* str::split_whitespace, for the space character
RECURSIVE split_whitespace(_)
split_whitespace(text) ==
    IF text = <<>> THEN <<>>
    ELSE IF Head(text) = 32 THEN split_whitespace(Tail(text))
    ELSE LET stop == IF \E i \in 1 .. Len(text) : text[i] = 32
                     THEN (CHOOSE i \in 1 .. Len(text) :
                              text[i] = 32 /\ \A j \in 1 .. i - 1 : text[j] # 32)
                     ELSE Len(text) + 1
         IN  <<SubSeq(text, 1, stop - 1)>> \o split_whitespace(SubSeq(text, stop, Len(text)))

\* lines 186-203: one "Environment=<pair>" line for each pair
env_vars_formatted(vars_option) ==
    IF vars_option.some
    THEN LET pairs == split_whitespace(vars_option.v)
         IN  [i \in 1 .. Len(pairs) |->
                 <<69, 110, 118, 105, 114, 111, 110, 109, 101, 110, 116, 61>> \o pairs[i]]
    ELSE <<>>

\* a policy line that does not look at auto_restart
restart_policy_always(restart) == "Restart=always"

\* line 205
restart_policy(restart) == IF restart THEN "Restart=always" ELSE ""

\* lines 208-227: the service_body, by the values put into the template
service_body(name, user, working_directory, exec_start, restart, environment) ==
    [generator |-> "Servicer", description |-> name, user |-> user,
     working_directory |-> working_directory, exec_start |-> exec_start,
     restart_policy |-> restart, environment |-> environment]

\* the files on disk after fs::write(path, body)
fs_write(fs, path, body) == [p \in DOMAIN fs \cup {path} |-> IF p = path THEN body ELSE fs[p]]

\* a create_service_file that writes the descriptor before it looks for the
\* interpreter's executable
create_service_file_write_first(fs, name, path, dir, restart, interp, vars_option, args, fname, env) ==
    IF ~env.sudo_user THEN [files |-> fs, outcome |-> "panic: no SUDO_USER"]
    ELSE IF ~env.writable THEN [files |-> fs, outcome |-> "panic: write"]
    ELSE [files |-> fs_write(fs, path,
                       service_body(name, "hp", dir,
                           create_exec_start(interp, fname, args),
                           restart_policy(restart), env_vars_formatted(vars_option))),
          outcome |-> IF interp.some /\ ~env.found THEN "panic: no executable" ELSE "written"]

\* fn create_service_file (lines 150-231): env says whether $SUDO_USER is set
\* (sudo_user), whether which() finds the interpreter (found) and whether
\* fs::write succeeds (writable); dir is the working directory; the result is
\* the files on disk and how the call ended
create_service_file(fs, name, path, dir, restart, interp, vars_option, args, fname, env) ==
    IF ~env.sudo_user THEN [files |-> fs, outcome |-> "panic: no SUDO_USER"]
    ELSE IF interp.some /\ ~env.found
    THEN [files |-> fs, outcome |-> "panic: no executable"]
    ELSE IF ~env.writable THEN [files |-> fs, outcome |-> "panic: write"]
    ELSE [files |-> fs_write(fs, path,
                       service_body(name, "hp", dir,
                           create_exec_start(interp, fname, args),
                           restart_policy(restart), env_vars_formatted(vars_option))),
          outcome |-> "written"]

\* lines 66-77: the directory of the file, the current one for a bare name
working_directory_of(path) ==
    canonicalize(IF path_parent(path) = <<>> THEN <<Slash, 119>> ELSE path_parent(path))

\* Manager.EnableUnitFiles(files, runtime, force)
EnableUnitFiles(unit_name) ==
    [method |-> "EnableUnitFiles", unit |-> unit_name, mode |-> "runtime=false force=true"]

\* a start_service that sends the request a second time
start_service_retrying(log, unit_name) ==
    Append(Append(log, StartUnit(unit_name, "replace")), StartUnit(unit_name, "replace"))

\* utils/service_actions.rs: fn start_service issues StartUnit(name, "replace")
start_service(log, unit_name) == Append(log, StartUnit(unit_name, "replace"))

\* utils/service_actions.rs: fn enable_service issues
\* EnableUnitFiles([name], false, true)
enable_service(log, unit_name) == Append(log, EnableUnitFiles(unit_name))

\* Manager.StopUnit(name, mode), Manager.ReloadUnit(name, mode) and
\* Manager.DisableUnitFiles(files, runtime)
StopUnit(unit_name, mode) == [method |-> "StopUnit", unit |-> unit_name, mode |-> mode]
ReloadUnit(unit_name, mode) == [method |-> "ReloadUnit", unit |-> unit_name, mode |-> mode]
DisableUnitFiles(unit_name) ==
    [method |-> "DisableUnitFiles", unit |-> unit_name, mode |-> "runtime=false"]

\* utils/service_actions.rs: fn stop_service, fn reload_service, fn disable_service
stop_service(log, unit_name) == Append(log, StopUnit(unit_name, "replace"))
reload_service(log, unit_name) == Append(log, ReloadUnit(unit_name, "replace"))
disable_service(log, unit_name) == Append(log, DisableUnitFiles(unit_name))

\* a handler that starts the unit called by the bare service name
handle_start_service_bare(log, base) == start_service(log, base)

\* handlers::handle_start_service(service_name, false): starts the unit of the name
handle_start_service(log, base) == start_service(log, get_full_service_name(base))

\* handlers::handle_enable_service(service_name, false): enables the unit of the name
handle_enable_service(log, base) == enable_service(log, get_full_service_name(base))

(***************************************************************************)
(* Escaper runs: one name is encoded, and its encoding encoded again.      *)
(***************************************************************************)
EscIdle ==
    /\ input_string = <<>>
    /\ object_path = <<>>
    /\ reencoded = <<>>
    /\ other_string = <<>>
    /\ other_path = <<>>

NormIdle ==
    /\ path_or_service = <<>>
    /\ full_service_name = <<>>
    /\ renormalized = <<>>

QueryIdle ==
    /\ queried_unit = <<>>
    /\ query = "none"
    /\ unit_path = <<>>
    /\ reply = NotAsked
    /\ result = NoResult

StartIdle ==
    /\ custom_name = None
    /\ custom_interpreter = None
    /\ force = FALSE
    /\ load_state = ""
    /\ file_name = <<>>
    /\ service_name = <<>>
    /\ created_name = <<>>
    /\ active_state = ""
    /\ files = <<>>
    /\ files_before = <<>>
    /\ bus_log = <<>>
    /\ outcome = "running"

CreateIdle ==
    /\ start = FALSE
    /\ enable = FALSE
    /\ auto_restart = FALSE
    /\ env_vars = None
    /\ internal_args = <<>>
    /\ interpreter = None

ActionIdle == command = "none"

StatmIdle ==
    /\ contents = <<>>
    /\ page_size_kb = 0
    /\ memory = [kind |-> "none", value |-> 0]

LaterIdle == ActionIdle /\ StatmIdle

EscOthersIdle == NormIdle /\ QueryIdle /\ StartIdle /\ CreateIdle /\ LaterIdle
NormOthersIdle == EscIdle /\ QueryIdle /\ StartIdle /\ CreateIdle /\ LaterIdle
QueryOthersIdle == EscIdle /\ NormIdle /\ StartIdle /\ CreateIdle /\ LaterIdle
StartOthersIdle == EscIdle /\ QueryIdle /\ renormalized = <<>> /\ CreateIdle /\ LaterIdle
CreateOthersIdle ==
    /\ LaterIdle
    /\ EscIdle
    /\ QueryIdle
    /\ renormalized = <<>>
    /\ full_service_name = <<>>
    /\ force = FALSE
    /\ load_state = ""
    /\ active_state = ""

EscInputs == BoundedSeq(EscAlphabet, MaxLen) \cup {HelloWorldTxt}

InitEscape ==
    /\ pc = "escape"
    /\ input_string \in EscInputs
    /\ object_path = <<>>
    /\ reencoded = <<>>
    /\ other_string = <<>>
    /\ other_path = <<>>
    /\ EscOthersIdle

Encode ==
    /\ pc = "escape"
    /\ object_path' = encode_as_dbus_object_path(input_string)
    /\ pc' = "encoded"
    /\ UNCHANGED <<input_string, reencoded, other_string, other_path, escOthers>>

ReEncode ==
    /\ pc = "encoded"
    /\ reencoded' = encode_as_dbus_object_path(object_path)
    /\ pc' = "reencoded"
    /\ UNCHANGED <<input_string, object_path, other_string, other_path, escOthers>>

NextEscape == Encode \/ ReEncode

SpecEscape == InitEscape /\ [][NextEscape]_vars

(***************************************************************************)
(* Two unit names and the object paths get_unit_path addresses for them.   *)
(***************************************************************************)
PairInputs == BoundedSeq(PairAlphabet, MaxPairLen)

InitEscapePair ==
    /\ pc = "pair"
    /\ input_string \in PairInputs
    /\ other_string \in PairInputs
    /\ object_path = <<>>
    /\ other_path = <<>>
    /\ reencoded = <<>>
    /\ EscOthersIdle

UnitPath ==
    /\ pc = "pair"
    /\ object_path' = get_unit_path(input_string)
    /\ pc' = "pair_other"
    /\ UNCHANGED <<input_string, other_string, other_path, reencoded, escOthers>>

OtherUnitPath ==
    /\ pc = "pair_other"
    /\ other_path' = get_unit_path(other_string)
    /\ pc' = "pair_done"
    /\ UNCHANGED <<input_string, other_string, object_path, reencoded, escOthers>>

NextEscapePair == UnitPath \/ OtherUnitPath

SpecEscapePair == InitEscapePair /\ [][NextEscapePair]_vars

(***************************************************************************)
(* main.rs: the unit name of the Start command.                            *)
(***************************************************************************)
\* const TOOL_NAME: &str = "stabled"
TOOL_NAME == <<115, 116, 97, 98, 108, 101, 100>>
\* ".service"
DotService == <<46, 115, 101, 114, 118, 105, 99, 101>>

\* str::ends_with
ends_with(s, suffix) ==
    /\ Len(s) >= Len(suffix)
    /\ SubSeq(s, Len(s) - Len(suffix) + 1, Len(s)) = suffix

\* format!("{}.{}.service", service_name, TOOL_NAME)
created_unit_name(base) == base \o <<46>> \o TOOL_NAME \o DotService

\* a derivation that appends the suffix whatever the argument ends with
derive_always_append(arg) == arg \o <<46>> \o TOOL_NAME \o DotService

\* let full_service_name = if path_or_service.ends_with(..) {..} else {..}
derive_full_service_name(arg) ==
    IF ends_with(arg, TOOL_NAME \o DotService)
    THEN arg
    ELSE arg \o <<46>> \o TOOL_NAME \o DotService

(***************************************************************************)
(* Normaliser runs: the derived unit name is given to the command again.   *)
(***************************************************************************)
InitNormalize ==
    /\ pc = "normalize"
    /\ path_or_service \in Paths
    /\ full_service_name = <<>>
    /\ renormalized = <<>>
    /\ NormOthersIdle

Normalize ==
    /\ pc = "normalize"
    /\ full_service_name' = derive_full_service_name(path_or_service)
    /\ pc' = "normalized"
    /\ UNCHANGED <<path_or_service, renormalized, normOthers>>

Renormalize ==
    /\ pc = "normalized"
    /\ renormalized' = derive_full_service_name(full_service_name)
    /\ pc' = "renormalized"
    /\ UNCHANGED <<path_or_service, full_service_name, normOthers>>

NextNormalize == Normalize \/ Renormalize

SpecNormalize == InitNormalize /\ [][NextNormalize]_vars

(***************************************************************************)
(* Query runs: one state query about one unit. The bus is asked only when  *)
(* the object path is well formed.                                         *)
(***************************************************************************)
QueryNames ==
    {derive_full_service_name(p) : p \in Paths} \cup {created_unit_name(n) : n \in Stems}

InitQuery ==
    /\ pc = "query"
    /\ queried_unit \in QueryNames
    /\ query = "none"
    /\ unit_path = <<>>
    /\ reply = NotAsked
    /\ result = NoResult
    /\ QueryOthersIdle

\* the answers a read can get: none when the path is refused before the bus
\* is asked
Answers(path, values) ==
    IF ObjectPathValid(path) THEN Replies(values) ELSE {NotAsked}

QueryLoadState ==
    /\ pc = "query"
    /\ \E r \in Answers(main_object_path(queried_unit), LoadStates) :
          /\ reply' = r
          /\ result' = get_load_state(queried_unit, r)
    /\ query' = "load_state"
    /\ unit_path' = main_object_path(queried_unit)
    /\ pc' = "query_done"
    /\ UNCHANGED <<queried_unit, queryOthers>>

QueryActiveState ==
    /\ pc = "query"
    /\ \E r \in Answers(get_unit_path(queried_unit), ActiveStates) :
          /\ reply' = r
          /\ result' = get_active_state(queried_unit, r)
    /\ query' = "active_state"
    /\ unit_path' = get_unit_path(queried_unit)
    /\ pc' = "query_done"
    /\ UNCHANGED <<queried_unit, queryOthers>>

QueryUnitFileState ==
    /\ pc = "query"
    /\ \E r \in Answers(get_unit_path(queried_unit), UnitFileStates) :
          /\ reply' = r
          /\ result' = get_unit_file_state(queried_unit, r)
    /\ query' = "unit_file_state"
    /\ unit_path' = get_unit_path(queried_unit)
    /\ pc' = "query_done"
    /\ UNCHANGED <<queried_unit, queryOthers>>

QueryMainPid ==
    /\ pc = "query"
    /\ \E r \in Answers(get_unit_path(queried_unit), MainPids) :
          /\ reply' = r
          /\ result' = get_main_pid(queried_unit, r)
    /\ query' = "main_pid"
    /\ unit_path' = get_unit_path(queried_unit)
    /\ pc' = "query_done"
    /\ UNCHANGED <<queried_unit, queryOthers>>

NextQuery == QueryLoadState \/ QueryActiveState \/ QueryUnitFileState \/ QueryMainPid

SpecQuery == InitQuery /\ [][NextQuery]_vars

(***************************************************************************)
(* main.rs: one invocation of the Start command.                           *)
(***************************************************************************)
CustomNames == {None} \cup {Some(n) : n \in Stems}
CustomInterpreters == {None, Some(Node), Some(Ruby)}

\* the unit the invocation would create for these arguments
TargetName(path, name) ==
    created_unit_name(IF name.some THEN name.v ELSE path_file_name(path))

Init ==
    /\ pc = "start"
    /\ path_or_service \in Paths
    /\ custom_name \in CustomNames
    /\ custom_interpreter \in CustomInterpreters
    /\ force \in BOOLEAN
    /\ \E present \in SUBSET {main_service_file_path(TargetName(path_or_service, custom_name))} :
          files = [p \in present |-> OldDescriptor]
    /\ files_before = files
    /\ full_service_name = <<>>
    /\ load_state = ""
    /\ file_name = <<>>
    /\ service_name = <<>>
    /\ created_name = <<>>
    /\ active_state = ""
    /\ bus_log = <<>>
    /\ outcome = "running"
    /\ StartOthersIdle

\* zbus::blocking::Connection::system().unwrap()
Connect ==
    /\ pc = "start"
    /\ \E reachable \in BOOLEAN :
          IF reachable
          THEN pc' = "connected" /\ outcome' = outcome
          ELSE pc' = "done" /\ outcome' = "panic: no connection"
    /\ UNCHANGED <<path_or_service, full_service_name, custom_name, custom_interpreter,
                   force, load_state, file_name, service_name, created_name,
                   active_state, files, files_before, bus_log, startOthers>>

\* lines 58-64: the unit name of the argument and its load state
QueryLoad ==
    /\ pc = "connected"
    /\ \E unit \in {derive_full_service_name(path_or_service)} :
          /\ full_service_name' = unit
          /\ \E r \in Answers(main_object_path(unit), LoadStates) :
                /\ load_state' = get_load_state(unit, r).value
    /\ pc' = "branch"
    /\ UNCHANGED <<path_or_service, custom_name, custom_interpreter, force, file_name,
                   service_name, created_name, active_state, files, files_before,
                   bus_log, outcome, startOthers>>

\* lines 132-137: the unit is known to the daemon
StartExisting ==
    /\ pc = "branch"
    /\ ~(load_state = "invalid-unit-path" \/ load_state = "not-found")
    /\ pc' = "done"
    /\ outcome' = "ok"
    /\ UNCHANGED <<path_or_service, full_service_name, custom_name, custom_interpreter,
                   force, load_state, file_name, service_name, created_name,
                   active_state, files, files_before, bus_log, startOthers>>

\* lines 66-92: the argument is a path; kind is what lies at it
ResolveFile ==
    /\ pc = "branch"
    /\ load_state = "invalid-unit-path" \/ load_state = "not-found"
    /\ \E kind \in {"absent", "dir", "file"} :
          \* only a non-empty path that does not end with '/' can name a file
          /\ kind = "file" =>
                path_or_service # <<>> /\ path_or_service[Len(path_or_service)] # Slash
          /\ path_or_service = <<>> => kind = "absent"
          /\ IF kind = "absent"
             THEN /\ pc' = "done"
                  /\ outcome' = "panic: could not find file"
                  /\ UNCHANGED <<file_name, service_name, created_name>>
             ELSE IF kind = "dir"
             THEN /\ pc' = "done"
                  /\ outcome' = "panic: not a file"
                  /\ UNCHANGED <<file_name, service_name, created_name>>
             ELSE \E name \in {path_file_name(path_or_service)} :
                  \E base \in {IF custom_name.some THEN custom_name.v ELSE name} :
                  /\ file_name' = name
                  /\ service_name' = base
                  /\ created_name' = created_unit_name(base)
                  /\ pc' = "active"
                  /\ outcome' = outcome
    /\ UNCHANGED <<path_or_service, full_service_name, custom_name, custom_interpreter,
                   force, load_state, active_state, files, files_before, bus_log,
                   startOthers>>

\* a guard that asks for --force for a failed unit as well
overwrite_declined_when_failed(state, forced) ==
    (state = "active" \/ state = "reloading" \/ state = "failed") /\ ~forced

\* lines 95-99: the invocation returns when the unit is active or reloading
\* and --force is not given
overwrite_declined(state, forced) == (state = "active" \/ state = "reloading") /\ ~forced

\* lines 94-101: the overwrite guard
QueryActive ==
    /\ pc = "active"
    /\ \E r \in Answers(main_object_path(created_name), ActiveStates) :
          /\ \E state \in {main_get_active_state(created_name, r).value} :
                /\ active_state' = state
                /\ IF overwrite_declined(state, force)
                   THEN pc' = "done" /\ outcome' = "declined"
                   ELSE pc' = "create" /\ outcome' = outcome
    /\ UNCHANGED <<path_or_service, full_service_name, custom_name, custom_interpreter,
                   force, load_state, file_name, service_name, created_name, files,
                   files_before, bus_log, startOthers>>

\* lines 103-125 and create_service_file: the descriptor is written unless it
\* exists and --force is absent
CreateFile ==
    /\ pc = "create"
    /\ LET path == main_service_file_path(created_name)
           interp ==
               IF custom_interpreter.some THEN custom_interpreter
               ELSE main_get_interpreter(path_extension(path_or_service))
           parent == path_parent(path_or_service)
       IN  IF ~(path \notin DOMAIN files \/ force)
           THEN pc' = "start_unit" /\ UNCHANGED <<files, outcome>>
           ELSE IF interp = Panic
           THEN pc' = "done" /\ outcome' = "panic: no interpreter" /\ UNCHANGED files
           ELSE IF parent = <<>>
           THEN \* fs::canonicalize("") fails
                pc' = "done" /\ outcome' = "panic: canonicalize" /\ UNCHANGED files
           ELSE \E sudo_user, found, writable \in BOOLEAN :
                  IF ~sudo_user
                  THEN pc' = "done" /\ outcome' = "panic: no SUDO_USER" /\ UNCHANGED files
                  ELSE IF interp.some /\ ~found
                  THEN /\ pc' = "done"
                       /\ outcome' = "panic: no executable"
                       /\ UNCHANGED files
                  ELSE IF ~writable
                  THEN pc' = "done" /\ outcome' = "panic: write" /\ UNCHANGED files
                  ELSE /\ files' =
                            [p \in DOMAIN files \cup {path} |->
                                IF p = path
                                THEN main_service_body(service_name, "hp",
                                         canonicalize(parent),
                                         main_exec_start(interp, file_name))
                                ELSE files[p]]
                       /\ pc' = "start_unit"
                       /\ outcome' = outcome
    /\ UNCHANGED <<path_or_service, full_service_name, custom_name, custom_interpreter,
                   force, load_state, file_name, service_name, created_name,
                   active_state, files_before, bus_log, startOthers>>

\* lines 127-131 and 137: StartUnit; accepted says whether a job came back
StartService ==
    /\ pc = "start_unit"
    /\ bus_log' = Append(bus_log, StartUnit(created_name, "replace"))
    /\ \E accepted \in BOOLEAN :
          outcome' = IF accepted THEN "ok" ELSE "panic: failed to start"
    /\ pc' = "done"
    /\ UNCHANGED <<path_or_service, full_service_name, custom_name, custom_interpreter,
                   force, load_state, file_name, service_name, created_name,
                   active_state, files, files_before, startOthers>>

Next ==
    \/ Connect
    \/ QueryLoad
    \/ StartExisting
    \/ ResolveFile
    \/ QueryActive
    \/ CreateFile
    \/ StartService

Spec == Init /\ [][Next]_vars

(***************************************************************************)
(* handlers/handle_create_service.rs: one invocation of the create         *)
(* command.                                                                *)
(***************************************************************************)
\* "", ".js", ".py", ".rb"
CreateEndings == {<<>>, <<46, 106, 115>>, <<46, 112, 121>>, <<46, 114, 98>>}
CreatePaths == {d \o st \o e : d \in Dirs, st \in Stems, e \in CreateEndings}
\* none, or "A=1 B=2"
EnvVars == {None, Some(<<65, 61, 49, 32, 66, 61, 50>>)}
\* the first n of the arguments "b", "c", "d", ...
ArgLists == {[i \in 1 .. n |-> <<97 + i>>] : n \in 0 .. MaxArgs}

InitCreate ==
    /\ pc = "create_check"
    /\ path_or_service \in CreatePaths
    /\ custom_name \in CustomNames
    /\ custom_interpreter \in {None, Some(Ruby)}
    /\ start \in BOOLEAN
    /\ enable \in BOOLEAN
    /\ auto_restart \in BOOLEAN
    /\ env_vars \in EnvVars
    /\ internal_args \in ArgLists
    /\ \E present \in SUBSET {get_service_file_path(get_full_service_name(
                                 IF custom_name.some THEN custom_name.v
                                 ELSE path_file_name(path_or_service)))} :
          files = [p \in present |-> OldDescriptor]
    /\ files_before = files
    /\ interpreter = None
    /\ file_name = <<>>
    /\ service_name = <<>>
    /\ created_name = <<>>
    /\ bus_log = <<>>
    /\ outcome = "running"
    /\ CreateOthersIdle

\* lines 34-51: the path must name a file; the names derived from it
CheckFile ==
    /\ pc = "create_check"
    /\ \E is_file \in BOOLEAN :
          /\ is_file =>
                path_or_service # <<>> /\ path_or_service[Len(path_or_service)] # Slash
          /\ IF ~is_file
             THEN /\ pc' = "done"
                  /\ outcome' = "error: not a file"
                  /\ UNCHANGED <<file_name, service_name, created_name>>
             ELSE \E name \in {path_file_name(path_or_service)} :
                  \E base \in {IF custom_name.some THEN custom_name.v ELSE name} :
                  /\ file_name' = name
                  /\ service_name' = base
                  /\ created_name' = get_full_service_name(base)
                  /\ pc' = "create_exists"
                  /\ outcome' = outcome
    /\ UNCHANGED <<path_or_service, custom_name, custom_interpreter, files, files_before,
                   bus_log, createVars, createOthers>>

\* lines 53-60: an existing descriptor ends the invocation with a panic
CheckExists ==
    /\ pc = "create_exists"
    /\ IF get_service_file_path(created_name) \in DOMAIN files
       THEN pc' = "done" /\ outcome' = "panic: already exists"
       ELSE pc' = "create_interpreter" /\ outcome' = outcome
    /\ UNCHANGED <<path_or_service, custom_name, custom_interpreter, file_name,
                   service_name, created_name, files, files_before, bus_log,
                   createVars, createOthers>>

\* lines 61-64
ResolveInterpreter ==
    /\ pc = "create_interpreter"
    /\ \E resolved \in {resolve_interpreter(custom_interpreter, path_or_service)} :
          IF resolved = Panic
          THEN pc' = "done" /\ outcome' = "panic: no interpreter" /\ UNCHANGED interpreter
          ELSE pc' = "create_write" /\ outcome' = outcome /\ interpreter' = resolved
    /\ UNCHANGED <<path_or_service, custom_name, custom_interpreter, file_name,
                   service_name, created_name, files, files_before, bus_log, start,
                   enable, auto_restart, env_vars, internal_args, createOthers>>

\* lines 66-92 and create_service_file
WriteServiceFile ==
    /\ pc = "create_write"
    /\ \E sudo_user, found, writable \in BOOLEAN :
       \E written \in {create_service_file(files, service_name,
                            get_service_file_path(created_name),
                            working_directory_of(path_or_service), auto_restart,
                            interpreter, env_vars, internal_args, file_name,
                            [sudo_user |-> sudo_user, found |-> found,
                             writable |-> writable])} :
          /\ files' = written.files
          /\ IF written.outcome = "written"
             THEN pc' = "create_start" /\ outcome' = outcome
             ELSE pc' = "done" /\ outcome' = written.outcome
    /\ UNCHANGED <<path_or_service, custom_name, custom_interpreter, file_name,
                   service_name, created_name, files_before, bus_log, createVars,
                   createOthers>>

\* lines 94-98: handle_start_service(service_name, false), which asks the
\* manager to start the unit
HandleStart ==
    /\ pc = "create_start"
    /\ IF start
       THEN /\ bus_log' = handle_start_service(bus_log, service_name)
            /\ \E accepted \in BOOLEAN :
                  IF accepted
                  THEN pc' = "create_enable" /\ outcome' = outcome
                  ELSE pc' = "done" /\ outcome' = "panic: failed to start"
       ELSE pc' = "create_enable" /\ UNCHANGED <<bus_log, outcome>>
    /\ UNCHANGED <<path_or_service, custom_name, custom_interpreter, file_name,
                   service_name, created_name, files, files_before, createVars,
                   createOthers>>

\* lines 99-103: handle_enable_service(service_name, false)
HandleEnable ==
    /\ pc = "create_enable"
    /\ IF enable
       THEN /\ bus_log' = handle_enable_service(bus_log, service_name)
            /\ \E accepted \in BOOLEAN :
                  IF accepted
                  THEN pc' = "create_status" /\ outcome' = outcome
                  ELSE pc' = "done" /\ outcome' = "panic: failed to enable"
       ELSE pc' = "create_status" /\ UNCHANGED <<bus_log, outcome>>
    /\ UNCHANGED <<path_or_service, custom_name, custom_interpreter, file_name,
                   service_name, created_name, files, files_before, createVars,
                   createOthers>>

\* lines 105-108: handle_show_status().await?
ShowStatus ==
    /\ pc = "create_status"
    /\ \E shown \in BOOLEAN : outcome' = IF shown THEN "ok" ELSE "error: status"
    /\ pc' = "done"
    /\ UNCHANGED <<path_or_service, custom_name, custom_interpreter, file_name,
                   service_name, created_name, files, files_before, bus_log,
                   createVars, createOthers>>

NextCreate ==
    \/ CheckFile
    \/ CheckExists
    \/ ResolveInterpreter
    \/ WriteServiceFile
    \/ HandleStart
    \/ HandleEnable
    \/ ShowStatus

SpecCreate == InitCreate /\ [][NextCreate]_vars

(***************************************************************************)
(* One invocation of either command: Start of main.rs or the create        *)
(* handler.                                                                *)
(***************************************************************************)
InitFlows == Init \/ InitCreate

NextFlows ==
    \/ Next
    \/ NextCreate

SpecFlows == InitFlows /\ [][NextFlows]_vars

(***************************************************************************)
(* utils/service_actions.rs: one call of start_service, stop_service,      *)
(* reload_service, enable_service or disable_service.                      *)
(***************************************************************************)
ActionNames == {get_full_service_name(n) : n \in BoundedSeq(StemAlphabet, MaxNameLen)}
\* what the manager answers: a job, the changes made, or an error
ManagerReplies == Replies({"done"})

InitAction ==
    /\ pc = "action"
    /\ command \in {"start", "stop", "reload", "enable", "disable"}
    /\ full_service_name \in ActionNames
    /\ reply = NotAsked
    /\ bus_log = <<>>
    /\ outcome = "running"
    /\ EscIdle
    /\ queried_unit = <<>> /\ query = "none" /\ unit_path = <<>> /\ result = NoResult
    /\ path_or_service = <<>> /\ renormalized = <<>>
    /\ custom_name = None /\ custom_interpreter = None /\ force = FALSE
    /\ load_state = "" /\ file_name = <<>> /\ service_name = <<>>
    /\ created_name = <<>> /\ active_state = ""
    /\ files = <<>> /\ files_before = <<>>
    /\ CreateIdle
    /\ StatmIdle

\* fn start_service
StartAction ==
    /\ pc = "action"
    /\ command = "start"
    /\ bus_log' = start_service(bus_log, full_service_name)
    /\ \E r \in ManagerReplies :
          /\ reply' = r
          /\ outcome' = IF r.ok THEN "ok" ELSE "panic: failed to start"
    /\ pc' = "done"
    /\ UNCHANGED <<full_service_name, command, actionOthers>>

\* fn stop_service
StopAction ==
    /\ pc = "action"
    /\ command = "stop"
    /\ bus_log' = stop_service(bus_log, full_service_name)
    /\ \E r \in ManagerReplies :
          /\ reply' = r
          /\ outcome' = IF r.ok THEN "ok" ELSE "panic: failed to stop"
    /\ pc' = "done"
    /\ UNCHANGED <<full_service_name, command, actionOthers>>

\* fn reload_service
ReloadAction ==
    /\ pc = "action"
    /\ command = "reload"
    /\ bus_log' = reload_service(bus_log, full_service_name)
    /\ \E r \in ManagerReplies :
          /\ reply' = r
          /\ outcome' = IF r.ok THEN "ok" ELSE "panic: failed to reload"
    /\ pc' = "done"
    /\ UNCHANGED <<full_service_name, command, actionOthers>>

\* fn enable_service
EnableAction ==
    /\ pc = "action"
    /\ command = "enable"
    /\ bus_log' = enable_service(bus_log, full_service_name)
    /\ \E r \in ManagerReplies :
          /\ reply' = r
          /\ outcome' = IF r.ok THEN "ok" ELSE "panic: failed to enable"
    /\ pc' = "done"
    /\ UNCHANGED <<full_service_name, command, actionOthers>>

\* fn disable_service
DisableAction ==
    /\ pc = "action"
    /\ command = "disable"
    /\ bus_log' = disable_service(bus_log, full_service_name)
    /\ \E r \in ManagerReplies :
          /\ reply' = r
          /\ outcome' = IF r.ok THEN "ok" ELSE "panic: failed to disable"
    /\ pc' = "done"
    /\ UNCHANGED <<full_service_name, command, actionOthers>>

NextAction ==
    \/ StartAction
    \/ StopAction
    \/ ReloadAction
    \/ EnableAction
    \/ DisableAction

SpecAction == InitAction /\ [][NextAction]_vars

(***************************************************************************)
(* utils/process_status.rs: one call of get_memory_usage.                  *)
(***************************************************************************)
\* space 1 2 x : a separator, two digits and a character that is no digit
StatmAlphabet == {32, 49, 50, 120}
PageSizes == {4}

\* str::parse::<u64> of a token of at most MaxStatmLen + 1 characters, which
\* cannot exceed u64::MAX: Ok(value) for decimal digits, Err otherwise
RECURSIVE DecimalValue(_)
DecimalValue(digits) ==
    IF digits = <<>> THEN 0
    ELSE 10 * DecimalValue(SubSeq(digits, 1, Len(digits) - 1)) + (digits[Len(digits)] - 48)

parse_u64(token) ==
    IF token # <<>> /\ \A i \in 1 .. Len(token) : token[i] >= 48 /\ token[i] <= 57
    THEN OkReply(DecimalValue(token))
    ELSE ErrReply("ParseIntError")

\* how a call of get_memory_usage may end
MemoryResult(k, v) == [kind |-> k, value |-> v]

\* fn get_memory_usage, for a statm file that could be read (readable) or not.
\* values[1] and values[2] of the source are the second and the third field.
\* rss_pages - shared_pages below zero panics in a build with overflow checks
\* and wraps in one without; a wrapped u64 is written as the negative number n
\* that stands for 2^64 + n.
get_memory_usage(text, page_size, readable) ==
    LET values == split_whitespace(text)
    IN  IF ~readable THEN {MemoryResult("err: io", 0)}
        ELSE IF Len(values) < 2 THEN {MemoryResult("panic: invalid format", 0)}
        ELSE IF Len(values) < 3 THEN {MemoryResult("panic: index out of bounds", 0)}
        ELSE LET rss_pages == unwrap_or(parse_u64(values[2]), 0)
                 shared_pages == unwrap_or(parse_u64(values[3]), 0)
             IN  IF rss_pages >= shared_pages
                 THEN {MemoryResult("ok", (rss_pages - shared_pages) * page_size)}
                 ELSE {MemoryResult("panic: subtract with overflow", 0),
                       MemoryResult("wrapped", (rss_pages - shared_pages) * page_size)}

InitStatm ==
    /\ pc = "statm"
    /\ contents \in BoundedSeq(StatmAlphabet, MaxStatmLen)
    /\ page_size_kb \in PageSizes
    /\ memory = MemoryResult("none", 0)
    /\ EscIdle
    /\ NormIdle
    /\ QueryIdle
    /\ StartIdle
    /\ CreateIdle
    /\ ActionIdle

GetMemoryUsage ==
    /\ pc = "statm"
    /\ \E readable \in BOOLEAN :
          memory' \in get_memory_usage(contents, page_size_kb, readable)
    /\ pc' = "done"
    /\ UNCHANGED <<contents, page_size_kb, statmOthers>>

NextStatm == GetMemoryUsage

SpecStatm == InitStatm /\ [][NextStatm]_vars

(***************************************************************************)
(* C1..C3: the escaper.                                                    *)
(***************************************************************************)
\* the characters the specification lets through
PassThrough(c) ==
    \/ \E d \in 0 .. 9 : c = 48 + d
    \/ \E l \in 0 .. 25 : c = 65 + l \/ c = 97 + l
    \/ c = Slash
    \/ c = Underscore

\* number of hexadecimal digits of n written without padding
RECURSIVE HexWidth(_)
HexWidth(n) == IF n < 16 THEN 1 ELSE 1 + HexWidth(n \div 16)

\* the length of one character's image
Width(c) == IF PassThrough(c) THEN 1 ELSE 1 + HexWidth(c)

\* where the image of character i starts, counted from 0
RECURSIVE Offset(_, _)
Offset(s, i) == IF i = 1 THEN 0 ELSE Offset(s, i - 1) + Width(s[i - 1])

\* the number a string of lowercase hexadecimal digits denotes, -1 if it is none
RECURSIVE HexValue(_)
HexValue(ds) ==
    IF ds = <<>> THEN 0
    ELSE LET d == ds[Len(ds)]
             v == IF d \in 48 .. 57 THEN d - 48
                  ELSE IF d \in 97 .. 102 THEN d - 87 ELSE -1
             rest == HexValue(SubSeq(ds, 1, Len(ds) - 1))
         IN  IF v = -1 \/ rest = -1 THEN -1 ELSE 16 * rest + v

\* C1: the escaper works character by character: pass-through characters are
\* emitted unchanged, every other character as '_' followed by its lowercase,
\* unpadded hexadecimal code point; so a name of pass-through characters is
\* its own image, and "hello world.txt" becomes "hello_20world_2etxt".
C1_EscapeCharByChar ==
    pc \in {"encoded", "reencoded"} =>
        /\ Len(object_path) = Offset(input_string, Len(input_string) + 1)
        /\ \A i \in 1 .. Len(input_string) :
              LET c == input_string[i]
                  o == Offset(input_string, i)
                  digits == SubSeq(object_path, o + 2, o + Width(c))
              IN  IF PassThrough(c)
                  THEN object_path[o + 1] = c
                  ELSE /\ object_path[o + 1] = Underscore
                       /\ HexValue(digits) = c
                       /\ Len(digits) = 1 \/ digits[1] # 48
        /\ (\A i \in 1 .. Len(input_string) : PassThrough(input_string[i]))
              => object_path = input_string
        /\ input_string = HelloWorldTxt => object_path = HelloWorldEscaped

C1_Witness ==
    /\ pc = "encoded"
    /\ input_string = HelloWorldTxt
    /\ object_path = HelloWorldEscaped

\* C2: two distinct unit names never get the same object path.
C2_EscapeInjective ==
    (pc = "pair_done" /\ input_string # other_string) => object_path # other_path

\* C3: a name with at least one replaced character is double-escaped when its
\* image is escaped again: the second image differs from the first.
C3_ReEscapeDiffers ==
    (/\ pc = "reencoded"
     /\ \E i \in 1 .. Len(input_string) : ~PassThrough(input_string[i]))
        => reencoded # object_path

(***************************************************************************)
(* C4, C5: the unit name.                                                  *)
(***************************************************************************)
\* "stabled.service", the suffix the command tests for
TestedSuffix == <<115, 116, 97, 98, 108, 101, 100, 46, 115, 101, 114, 118, 105, 99, 101>>
\* ".stabled.service", what the command appends
AppendedSuffix == <<46>> \o TestedSuffix

\* C4: normalising is idempotent: an argument that already ends with the
\* suffix passes through unchanged, any other gets ".stabled.service"
\* appended, and normalising the result again changes nothing.
C4_NormalizeIdempotent ==
    /\ pc \in {"normalized", "renormalized"} =>
          LET n == Len(path_or_service)
              k == Len(TestedSuffix)
              qualified ==
                  /\ n >= k
                  /\ \A i \in 1 .. k : path_or_service[n - k + i] = TestedSuffix[i]
          IN  IF qualified
              THEN full_service_name = path_or_service
              ELSE /\ Len(full_service_name) = n + Len(AppendedSuffix)
                   /\ SubSeq(full_service_name, 1, n) = path_or_service
                   /\ SubSeq(full_service_name, n + 1, n + Len(AppendedSuffix))
                          = AppendedSuffix
    /\ pc = "renormalized" => renormalized = full_service_name

C4_Witness ==
    /\ pc = "renormalized"
    /\ path_or_service # full_service_name
    /\ renormalized = full_service_name

\* a unit name of the form <base>.stabled.service with a non-empty base
WellFormedUnitName(n) ==
    /\ Len(n) > Len(AppendedSuffix)
    /\ SubSeq(n, Len(n) - Len(AppendedSuffix) + 1, Len(n)) = AppendedSuffix

\* C5: every unit name the command derives, from the argument or from the
\* custom name, has the form <base>.stabled.service with a non-empty base;
\* when the base would be empty the invocation fails with InvalidInput.
C5_UnitNameWellFormed ==
    /\ full_service_name # <<>> =>
          WellFormedUnitName(full_service_name) \/ outcome = "error: InvalidInput"
    /\ created_name # <<>> =>
          WellFormedUnitName(created_name) \/ outcome = "error: InvalidInput"

(***************************************************************************)
(* C6, C7: the state queries.                                              *)
(***************************************************************************)
\* the unit is not addressable: its object path is malformed, or the daemon
\* knows no object at it
Unaddressable ==
    \/ ~ObjectPathValid(unit_path)
    \/ (~reply.ok /\ reply.value \in AddressErrors)

\* C6 as claimed: each of the four queries answers "invalid-unit-path" for a
\* malformed path or a unit that does not exist, and hands no error on.
C6_AllQueriesSentinel ==
    (pc = "query_done" /\ Unaddressable) => result = StringResult("invalid-unit-path")

\* C6: the load-state, active-state and unit-file-state queries answer
\* "invalid-unit-path" for a malformed path or a unit that does not exist;
\* the main-PID query hands the error to its caller instead.
C6_StringQueriesSentinel ==
    (pc = "query_done" /\ Unaddressable) =>
        IF query = "main_pid"
        THEN result.kind = "err"
        ELSE result = StringResult("invalid-unit-path")

C6_Witness ==
    /\ pc = "query_done"
    /\ query = "unit_file_state"
    /\ ObjectPathValid(unit_path)
    /\ reply = ErrReply("UnknownObject")
    /\ result = StringResult("invalid-unit-path")

\* C7: a read that fails for a transport reason is fatal to the query: it is
\* handed on as an error, never answered as "invalid-unit-path" or "not-found".
C7_TransportErrorSurfaced ==
    (pc = "query_done" /\ ~reply.ok /\ reply.value \in TransportErrors) =>
        /\ result.kind = "err"
        /\ result.value \notin {"invalid-unit-path", "not-found"}

(***************************************************************************)
(* C8, C9: the Start command.                                              *)
(***************************************************************************)
\* the requests of the log
Requests == {bus_log[i] : i \in 1 .. Len(bus_log)}

\* C8: given the name of an existing service (its load state is neither
\* "invalid-unit-path" nor "not-found"), the Start command has issued
\* StartUnit for that unit with job mode "replace" by the time it finishes.
C8_StartsExistingService ==
    (/\ pc = "done"
     /\ load_state \notin {"", "invalid-unit-path", "not-found"})
        => StartUnit(full_service_name, "replace") \in Requests

\* C9: when the descriptor file of the target unit exists already and --force
\* is absent, creation is rejected: the file keeps its content, and the
\* invocation ends as a failure, not as a successful create/start.
C9_ExistingDescriptorRejected ==
    (/\ pc = "done"
     /\ created_name # <<>>
     /\ main_service_file_path(created_name) \in DOMAIN files_before
     /\ ~force)
        => /\ files = files_before
           /\ outcome # "ok"
           /\ bus_log = <<>>

(***************************************************************************)
(* C10: the interpreter of a created service.                              *)
(***************************************************************************)
\* the file name ends with '.' followed by ext, and that '.' is not its first
\* character
HasExtension(name, ext) ==
    /\ Len(name) > Len(ext) + 1
    /\ SubSeq(name, Len(name) - Len(ext) + 1, Len(name)) = ext
    /\ name[Len(name) - Len(ext)] = 46

\* the file name has an extension: a '.' that is not its first character
HasSomeExtension(name) == \E k \in 2 .. Len(name) : name[k] = 46

\* the invocation got as far as resolving the interpreter
InterpreterDecided ==
    pc \in {"create_write", "create_start", "create_enable", "create_status"}
        \/ (pc = "done" /\ outcome \notin {"error: not a file", "panic: already exists"})

\* C10: a custom interpreter is used whatever the extension; without one,
\* "js" gives node and "py" gives python3; with any other extension and no
\* custom interpreter the invocation stops for want of an interpreter, before
\* anything is written, and never goes on with an exec line that has none.
C10_InterpreterResolution ==
    InterpreterDecided =>
        IF custom_interpreter.some
        THEN interpreter = custom_interpreter /\ outcome # "panic: no interpreter"
        ELSE IF HasExtension(file_name, <<106, 115>>)
        THEN interpreter = Some(Node) /\ outcome # "panic: no interpreter"
        ELSE IF HasExtension(file_name, <<112, 121>>)
        THEN interpreter = Some(Python3) /\ outcome # "panic: no interpreter"
        ELSE IF HasSomeExtension(file_name)
        THEN /\ pc = "done"
             /\ outcome = "panic: no interpreter"
             /\ files = files_before
             /\ bus_log = <<>>
        ELSE interpreter = None /\ outcome # "panic: no interpreter"

C10_Witness ==
    /\ pc = "done"
    /\ ~custom_interpreter.some
    /\ HasExtension(file_name, <<114, 98>>)
    /\ outcome = "panic: no interpreter"
    /\ files = files_before

(***************************************************************************)
(* C11: errors of the create command come before any effect.               *)
(***************************************************************************)
\* the path is not a file, the extension has no interpreter, the interpreter
\* has no executable, $SUDO_USER is not set
ValidationErrors ==
    {"error: not a file", "panic: no interpreter", "panic: no executable",
     "panic: no SUDO_USER"}

\* C11: a create invocation that ends in a validation or resolution error has
\* written no descriptor file and has sent no request to the manager: the
\* files on disk are the ones it found, and no StartUnit or EnableUnitFiles
\* was issued.
C11_ErrorsBeforeEffects ==
    outcome \in ValidationErrors => files = files_before /\ bus_log = <<>>

\* an invocation with --start that got as far as create_service_file and
\* ended there because the interpreter's executable was not found
C11_Witness ==
    /\ pc = "done"
    /\ outcome = "panic: no executable"
    /\ start
    /\ interpreter.some
    /\ get_service_file_path(created_name) \notin DOMAIN files

(***************************************************************************)
(* C12: one request for each unit action.                                  *)
(***************************************************************************)
\* the request each action is to send for a unit
RequestOf(cmd, unit_name) ==
    [method |-> CASE cmd = "start" -> "StartUnit"
                  [] cmd = "stop" -> "StopUnit"
                  [] cmd = "reload" -> "ReloadUnit"
                  [] cmd = "enable" -> "EnableUnitFiles"
                  [] cmd = "disable" -> "DisableUnitFiles",
     unit |-> unit_name,
     mode |-> CASE cmd \in {"start", "stop", "reload"} -> "replace"
                [] cmd = "enable" -> "runtime=false force=true"
                [] cmd = "disable" -> "runtime=false"]

\* C12: a finished start, stop, reload, enable or disable has sent exactly one
\* request to the manager, the one of the action for the given unit (with job
\* mode "replace" for start, stop and reload); it has made no state query;
\* and it ended well exactly when the manager's reply was not an error, so a
\* failed request is neither repeated nor hidden.
C12_SingleRequest ==
    (pc = "done" /\ command # "none") =>
        /\ bus_log = <<RequestOf(command, full_service_name)>>
        /\ query = "none" /\ result = NoResult
        /\ reply # NotAsked
        /\ reply.ok <=> outcome = "ok"
        /\ ~reply.ok => outcome \in {"panic: failed to " \o command}

\* a start whose request the manager refused
C12_Witness ==
    /\ pc = "done"
    /\ command = "start"
    /\ ~reply.ok
    /\ reply.value \in TransportErrors
    /\ Len(bus_log) = 1

(***************************************************************************)
(* C13, C14: the rendered descriptor.                                      *)
(***************************************************************************)
\* the descriptor this create invocation wrote, if it wrote one
DescriptorWritten ==
    /\ pc \in {"create_start", "create_enable", "create_status", "done"}
    /\ get_service_file_path(created_name) \in DOMAIN files
    /\ get_service_file_path(created_name) \notin DOMAIN files_before

Descriptor == files[get_service_file_path(created_name)]

\* the parts, in order, with one space between each two
RECURSIVE JoinWithSpace(_)
JoinWithSpace(parts) ==
    IF parts = <<>> THEN <<>>
    ELSE IF Len(parts) = 1 THEN parts[1]
    ELSE parts[1] \o <<32>> \o JoinWithSpace(Tail(parts))

\* C13: the exec line of a written descriptor is the interpreter's path (when
\* an interpreter is used), the file name and then every argument in the
\* order given, with a single space between each two; without an interpreter
\* it starts with the file name.
C13_ExecLine ==
    DescriptorWritten =>
        Descriptor.exec_start =
            JoinWithSpace((IF interpreter.some THEN <<which(interpreter.v)>> ELSE <<>>)
                          \o <<file_name>> \o internal_args)

\* a descriptor written for a file run by an interpreter with two arguments
C13_Witness ==
    /\ DescriptorWritten
    /\ interpreter.some
    /\ Len(internal_args) >= 2
    /\ internal_args[1] # internal_args[2]

\* C14: a written descriptor carries the line Restart=always exactly when
\* auto-restart was asked for; without it the descriptor is written all the
\* same and the place of the directive is left empty.
C14_RestartDirective ==
    DescriptorWritten =>
        /\ Descriptor.restart_policy = "Restart=always" <=> auto_restart
        /\ ~auto_restart => Descriptor.restart_policy = ""

\* a descriptor written without auto-restart
C14_Witness ==
    /\ DescriptorWritten
    /\ ~auto_restart
    /\ Descriptor.restart_policy = ""
    /\ Descriptor.generator = "Servicer"

(***************************************************************************)
(* C15: the overwrite guard of the Start command.                          *)
(***************************************************************************)
\* the active state has been queried and is "active" or "reloading"
UnitBusy == active_state = "active" \/ active_state = "reloading"

\* C15: in the Start flow, when the unit's queried active state is "active" or
\* "reloading" and --force is absent, the invocation is over with no
\* descriptor written and no StartUnit sent; and the step that queries the
\* active state goes on to the creation for every other answer ("failed"
\* among them) whether or not --force is given.
C15_OverwriteGuard ==
    /\ [](UnitBusy /\ ~force =>
            /\ pc = "done"
            /\ outcome = "declined"
            /\ files = files_before
            /\ bus_log = <<>>)
    /\ [][pc = "active" /\ ~(active_state' = "active" \/ active_state' = "reloading")
            => pc' = "create" /\ outcome' = "running"]_vars

\* an invocation without --force that found the unit active and ended
C15_Witness ==
    /\ pc = "done"
    /\ active_state = "active"
    /\ ~force
    /\ outcome = "declined"
    /\ main_service_file_path(created_name) \notin DOMAIN files

(***************************************************************************)
(* C16: the unit a Start invocation works on.                              *)
(***************************************************************************)
\* C16: within one Start invocation the unit whose load state was queried is
\* the unit whose active state is checked, whose descriptor is written and
\* which is handed to StartUnit.
C16_OneUnitName ==
    /\ created_name # <<>> => created_name = full_service_name
    /\ \A p \in DOMAIN files :
          (p \notin DOMAIN files_before \/ files[p] # files_before[p])
              => p = main_service_file_path(full_service_name)
    /\ \A i \in 1 .. Len(bus_log) : bus_log[i].unit = full_service_name

(***************************************************************************)
(* C17: the order of the effects of a creation.                            *)
(***************************************************************************)
\* the requests of a create invocation that have been sent once its start
\* step (started) and its enable step (enabled) are behind it
RequestsSent(started, enabled) ==
    (IF started /\ start THEN <<StartUnit(created_name, "replace")>> ELSE <<>>)
    \o (IF enabled /\ enable THEN <<EnableUnitFiles(created_name)>> ELSE <<>>)

\* C17: (1) in both commands, a StartUnit request is sent only in a state in
\* which the descriptor file of the unit it names exists; (2) the create
\* handler writes the descriptor, then sends StartUnit if asked to start, then
\* EnableUnitFiles if asked to enable, and shows the status last, changing
\* nothing after it; (3) when the descriptor existed already, the handler
\* ends at once with no file written and no request sent.
C17_CreateOrder ==
    /\ [][\A i \in Len(bus_log) + 1 .. Len(bus_log') :
             bus_log'[i].method = "StartUnit"
                 => get_service_file_path(bus_log'[i].unit) \in DOMAIN files]_vars
    /\ [](pc \in {"create_check", "create_exists", "create_interpreter", "create_write"}
             => files = files_before /\ bus_log = <<>>)
    /\ [](pc = "create_start" => DescriptorWritten /\ bus_log = RequestsSent(FALSE, FALSE))
    /\ [](pc = "create_enable" => DescriptorWritten /\ bus_log = RequestsSent(TRUE, FALSE))
    /\ [](pc = "create_status" => DescriptorWritten /\ bus_log = RequestsSent(TRUE, TRUE))
    /\ [][pc = "create_status" => pc' = "done" /\ files' = files /\ bus_log' = bus_log]_vars
    /\ [][pc = "create_exists" /\ get_service_file_path(created_name) \in DOMAIN files
             => pc' = "done" /\ files' = files /\ bus_log' = bus_log]_vars
    /\ [][pc # "done"]_vars

\* a create invocation with --start and --enable that has come to the status
\* display
C17_Witness ==
    /\ pc = "create_status"
    /\ start
    /\ enable
    /\ Len(bus_log) = 2
    /\ bus_log[1].method = "StartUnit"
    /\ bus_log[2].method = "EnableUnitFiles"
    /\ get_service_file_path(created_name) \in DOMAIN files

(***************************************************************************)
(* C18: the memory usage read from statm.                                  *)
(***************************************************************************)
\* the fields of the statm text
Fields == split_whitespace(contents)
\* the number a field holds, 0 when it holds none
FieldValue(i) == unwrap_or(parse_u64(Fields[i]), 0)

\* C18: once get_memory_usage has read the file, a text that passes its
\* field-count check (at least two fields) yields (second field - third
\* field) * page size, which is not negative, and no panic; a text that does
\* not pass the check is reported as an invalid format.
C18_MemoryUsage ==
    (pc = "done" /\ memory.kind \notin {"none", "err: io"}) =>
        IF Len(Fields) >= 2
        THEN /\ memory.kind = "ok"
             /\ Len(Fields) >= 3
             /\ memory.value = (FieldValue(2) - FieldValue(3)) * page_size_kb
             /\ memory.value >= 0
        ELSE memory.kind = "panic: invalid format"

====
